---- MODULE Spec2Model ----
(***************************************************************************)
(* A model of Nahara's WAV encoder/decoder: the generic RIFF container     *)
(* codec (src/riff/riff.ts), the WAVE chunk codecs `fmt `, `LIST`, `data`  *)
(* (riff/wave.ts), the sample domain table (internal.ts) and the coding    *)
(* mode layer encodeWav / decodeWav.                                       *)
(*                                                                         *)
(* Conventions.  A Blob / ArrayBuffer is a sequence of bytes 0..255.  A    *)
(* JavaScript string is a sequence of UTF-16 code units (BMP only); it     *)
(* becomes bytes only through UTF8Encode and comes back only through       *)
(* UTF8Decode.  A call that throws yields [ok |-> FALSE, err |-> name];    *)
(* a call that returns yields [ok |-> TRUE, val |-> value].                *)
(***************************************************************************)
EXTENDS Integers, Sequences, FiniteSets, TLC

VARIABLES
    pc,     \* position of the caller: "idle", "encoded", "received", "done"
    call,   \* the operation in progress and its arguments
    blob,   \* the byte blob handed from the encoder (or the outside) to the decoder
    ret     \* what the last call returned or threw

vars == <<pc, call, blob, ret>>

----------------------------------------------------------------------------
(* Generic helpers                                                         *)

Ok(v) == [ok |-> TRUE, val |-> v]
Err(e) == [ok |-> FALSE, err |-> e]

SeqsUpTo(S, n) == UNION {[1..k -> S] : k \in 0..n}

RECURSIVE Flatten(_)
Flatten(ss) == IF ss = <<>> THEN <<>> ELSE Head(ss) \o Flatten(Tail(ss))

Zeros(n) == [i \in 1..n |-> 0]

\* { id, ...r }
WithId(id, r) == [x \in {"id"} \cup DOMAIN r |-> IF x = "id" THEN id ELSE r[x]]

\* JavaScript `undefined`, as read from a typed array that is too short.
\* Every defined element of the arrays read here is unsigned.
undefined == -1

\* Blob.prototype.slice(start, end) for integer arguments: negative
\* arguments count from the end, both are clamped to [0, size].
RelativeIndex(x, n) ==
    IF x < 0 THEN (IF n + x < 0 THEN 0 ELSE n + x) ELSE (IF x > n THEN n ELSE x)

Slice(b, start, end) ==
    LET rs == RelativeIndex(start, Len(b))
        re == RelativeIndex(end, Len(b))
    IN IF re <= rs THEN <<>> ELSE SubSeq(b, rs + 1, re)

----------------------------------------------------------------------------
(* Strings and bytes                                                       *)

ReplacementChar == 65533

\* A string BlobPart is written as UTF-8 (also TextEncoder.encode).
UTF8Char(c) ==
    IF c < 128 THEN <<c>>
    ELSE IF c < 2048 THEN <<192 + (c \div 64), 128 + (c % 64)>>
    ELSE <<224 + (c \div 4096), 128 + ((c \div 64) % 64), 128 + (c % 64)>>

RECURSIVE UTF8Encode(_)
UTF8Encode(s) == IF s = <<>> THEN <<>> ELSE UTF8Char(Head(s)) \o UTF8Encode(Tail(s))

IsCont(b) == b >= 128 /\ b <= 191

\* The WHATWG UTF-8 decoder on one-, two- and three-byte forms: an ill-formed
\* sequence yields U+FFFD and consumes its maximal well-formed prefix.  Lead
\* bytes of four-byte forms (>= 0xF0) are outside the byte alphabets used here.
RECURSIVE UTF8DecodeFrom(_, _)
UTF8DecodeFrom(b, i) ==
    IF i > Len(b) THEN <<>>
    ELSE LET x == b[i]
             has2 == i + 1 <= Len(b)
             has3 == i + 2 <= Len(b)
             lo2 == IF x = 224 THEN 160 ELSE 128
             hi2 == IF x = 237 THEN 159 ELSE 191
         IN IF x < 128 THEN <<x>> \o UTF8DecodeFrom(b, i + 1)
            ELSE IF x >= 194 /\ x <= 223
            THEN IF has2 /\ IsCont(b[i + 1])
                 THEN <<(x - 192) * 64 + (b[i + 1] - 128)>> \o UTF8DecodeFrom(b, i + 2)
                 ELSE <<ReplacementChar>> \o UTF8DecodeFrom(b, i + 1)
            ELSE IF x >= 224 /\ x <= 239
            THEN IF has2 /\ b[i + 1] >= lo2 /\ b[i + 1] <= hi2
                 THEN IF has3 /\ IsCont(b[i + 2])
                      THEN <<(x - 224) * 4096 + (b[i + 1] - 128) * 64 + (b[i + 2] - 128)>>
                               \o UTF8DecodeFrom(b, i + 3)
                      ELSE <<ReplacementChar>> \o UTF8DecodeFrom(b, i + 2)
                 ELSE <<ReplacementChar>> \o UTF8DecodeFrom(b, i + 1)
            ELSE <<ReplacementChar>> \o UTF8DecodeFrom(b, i + 1)

\* Blob.prototype.text(): UTF-8 decode, which drops a leading byte order mark.
BlobText(b) ==
    IF Len(b) >= 3 /\ SubSeq(b, 1, 3) = <<239, 187, 191>>
    THEN UTF8DecodeFrom(b, 4)
    ELSE UTF8DecodeFrom(b, 1)

\* The bytes of new Uint16Array([x]) / new Uint32Array([x]) (little-endian host).
\* The numbers written by the model are below 2^31, so ToUint32 is the identity.
U16LE(x) == LET v == x % 65536 IN <<v % 256, v \div 256>>
U32LE(x) == <<x % 256, (x \div 256) % 256, (x \div 65536) % 256, (x \div 16777216) % 256>>

\* A JavaScript number holds every unsigned 32-bit value; the model's integers
\* stop at 2^31 - 1.  An element of 2^30 or more is carried as SizeCap: the
\* blobs of the model are far shorter, and such an element is only ever added
\* to a cursor and compared with a blob length.
SizeCap == 1073741824

U32(b0, b1, b2, b3) ==
    IF b3 >= 64 THEN SizeCap ELSE b0 + 256 * b1 + 65536 * b2 + 16777216 * b3

\* new Uint16Array(buffer) / new Uint32Array(buffer): a RangeError when the byte
\* length is not a multiple of the element size, else the elements in order.
Uint16Array(b) ==
    IF Len(b) % 2 # 0 THEN Err("RangeError")
    ELSE Ok([i \in 1..(Len(b) \div 2) |-> b[2 * i - 1] + 256 * b[2 * i]])

Uint32Array(b) ==
    IF Len(b) % 4 # 0 THEN Err("RangeError")
    ELSE Ok([i \in 1..(Len(b) \div 4) |->
                U32(b[4 * i - 3], b[4 * i - 2], b[4 * i - 1], b[4 * i])])

\* Destructuring `const [a, b] = array`: a missing element is undefined.
Elem(a, i) == IF i <= Len(a) THEN a[i] ELSE undefined

----------------------------------------------------------------------------
(* Chunk ids and tags                                                      *)

riff == <<82, 73, 70, 70>>           \* "RIFF" = 0x52 0x49 0x46 0x46
FMT_ID == <<102, 109, 116, 32>>      \* "fmt "
LIST_ID == <<76, 73, 83, 84>>        \* "LIST"
DATA_ID == <<100, 97, 116, 97>>      \* "data"
WAVE == <<87, 65, 86, 69>>           \* "WAVE"
INFO == <<73, 78, 70, 79>>           \* "INFO"

PCM == 1
Floats == 3

----------------------------------------------------------------------------
(* riff/wave.ts: the `fmt ` codec                                          *)

\* fmt.decode as it would be without the switch on audioFormat.
FmtDecodeUnchecked(b) ==
    LET h == Uint16Array(Slice(b, 0, 4))
        r == Uint32Array(Slice(b, 4, 12))
        t == Uint16Array(Slice(b, 12, 16))
    IN IF ~h.ok THEN h
       ELSE IF ~r.ok THEN r
       ELSE IF ~t.ok THEN t
       ELSE Ok([id |-> FMT_ID,
                audioFormat |-> Elem(h.val, 1),
                channels |-> Elem(h.val, 2),
                sampleRate |-> Elem(r.val, 1),
                byteRate |-> Elem(r.val, 2),
                blockAlign |-> Elem(t.val, 1),
                bitsPerChannel |-> Elem(t.val, 2)])

FmtDecode(b) ==
    LET h == Uint16Array(Slice(b, 0, 4))
    IN IF ~h.ok THEN h
       ELSE LET formatId == Elem(h.val, 1)
                channels == Elem(h.val, 2)
            IN IF formatId = undefined THEN Err("TypeError")   \* undefined.toString
               ELSE IF formatId \notin {PCM, Floats} THEN Err("Unsupported audio data format")
               ELSE LET r == Uint32Array(Slice(b, 4, 12))
                    IN IF ~r.ok THEN r
                       ELSE LET t == Uint16Array(Slice(b, 12, 16))
                            IN IF ~t.ok THEN t
                               ELSE Ok([id |-> FMT_ID,
                                        audioFormat |-> formatId,
                                        channels |-> channels,
                                        sampleRate |-> Elem(r.val, 1),
                                        byteRate |-> Elem(r.val, 2),
                                        blockAlign |-> Elem(t.val, 1),
                                        bitsPerChannel |-> Elem(t.val, 2)])

FmtEncode(c) ==
    Ok(U16LE(c.audioFormat) \o U16LE(c.channels)
        \o U32LE(c.sampleRate) \o U32LE(c.byteRate)
        \o U16LE(c.blockAlign) \o U16LE(c.bitsPerChannel))

----------------------------------------------------------------------------
(* riff/wave.ts: the `LIST` codec.  `entries` is a JavaScript object: an    *)
(* insertion-ordered sequence of <<name, value>> with distinct names.       *)

EntryNames(entries) == {entries[i][1] : i \in 1..Len(entries)}

EntryValue(entries, name) ==
    LET i == CHOOSE i \in 1..Len(entries) : entries[i][1] = name IN entries[i][2]

\* entries[name] = value
SetEntry(entries, name, value) ==
    IF name \in EntryNames(entries)
    THEN [i \in 1..Len(entries) |->
            IF entries[i][1] = name THEN <<name, value>> ELSE entries[i]]
    ELSE Append(entries, <<name, value>>)

\* The 4 bytes of a size field as an exact unsigned 32-bit value in base 65536.
U32Big(bytes) == <<bytes[4] * 256 + bytes[3], bytes[2] * 256 + bytes[1]>>

\* ToInt32 of a value below 2^33 held in base 65536
ToInt32(x) ==
    LET hi == x[1] % 65536
    IN (IF hi >= 32768 THEN hi - 65536 ELSE hi) * 65536 + x[2]

\* The cursor advance of the LIST decoder as it would be without rounding.
NoRounding(size) == IF size[1] >= 16384 THEN SizeCap ELSE size[1] * 65536 + size[2]

\* ((size + 1) >> 1) << 1 for an unsigned 32-bit size: the shifts work on the
\* 32-bit two's complement of size + 1.
RoundUpToEven(size) ==
    (ToInt32(IF size[2] = 65535 THEN <<size[1] + 1, 0>> ELSE <<size[1], size[2] + 1>>) \div 2) * 2

\* One iteration of the while loop.  A cursor of SizeCap or more stands for any
\* cursor past the end of the blob.
ListDecodeIteration(b, pointer, entries) ==
    LET name == BlobText(Slice(b, pointer, pointer + 4))
        sizeBytes == Slice(b, pointer + 4, pointer + 8)
        sz == Uint32Array(sizeBytes)
    IN IF ~sz.ok THEN sz
       ELSE IF Elem(sz.val, 1) = undefined
       \* slice(pointer + 8, NaN) is empty; (NaN >> 1) << 1 is 0
       THEN Ok([pointer |-> pointer + 8, sized |-> FALSE, size |-> <<0, 0>>,
                entries |-> SetEntry(entries, name, <<>>)])
       ELSE Ok([pointer |-> IF RoundUpToEven(U32Big(sizeBytes)) >= SizeCap THEN SizeCap
                            ELSE pointer + 8 + RoundUpToEven(U32Big(sizeBytes)),
                sized |-> TRUE, size |-> U32Big(sizeBytes),
                entries |-> SetEntry(entries, name,
                    BlobText(Slice(b, pointer + 8, pointer + 8 + Elem(sz.val, 1) - 1)))])

\* While pointer + 8 <= -blob.size every slice is empty: each iteration sets
\* entries[""] = "" and adds 8 to the cursor.  The cursor after the last of
\* these iterations:
SkipIdle(b, pointer) == pointer + 8 * (((-Len(b) - 8 - pointer) \div 8) + 1)

RECURSIVE ListDecodeLoop(_, _, _)
RECURSIVE ListDecodeLoopNext(_, _)
ListDecodeLoopNext(b, r) ==
    IF ~r.ok THEN r ELSE ListDecodeLoop(b, r.val.pointer, r.val.entries)

ListDecodeLoop(b, pointer, entries) ==
    IF ~(pointer < Len(b)) THEN Ok(entries)
    ELSE IF pointer + 8 <= -Len(b)
    THEN ListDecodeLoop(b, SkipIdle(b, pointer), SetEntry(entries, <<>>, <<>>))
    ELSE ListDecodeLoopNext(b, ListDecodeIteration(b, pointer, entries))

ListDecode(b) ==
    LET r == ListDecodeLoop(b, 4, <<>>)
    IN IF ~r.ok THEN r
       ELSE Ok([id |-> LIST_ID, type |-> BlobText(Slice(b, 0, 4)), entries |-> r.val])

RECURSIVE ListEncodeLoop(_, _)
ListEncodeLoop(entries, i) ==
    IF i > Len(entries) THEN Ok(<<>>)
    ELSE LET name == entries[i][1]
             value == entries[i][2]
         IN IF value = <<>> THEN ListEncodeLoop(entries, i + 1)      \* !entries[name]
            ELSE IF Len(name) # 4 THEN Err("Entry name must have a length of 4")
            ELSE LET encoded == UTF8Encode(value)
                     size == Len(encoded) + 1
                     tail == Zeros(1 + (IF size % 2 = 0 THEN 0 ELSE 2 - (size % 2)))
                     rest == ListEncodeLoop(entries, i + 1)
                 IN IF ~rest.ok THEN rest
                    ELSE Ok(UTF8Encode(name) \o U32LE(size) \o encoded \o tail \o rest.val)

ListEncode(c) ==
    LET r == ListEncodeLoop(c.entries, 1)
    IN IF ~r.ok THEN r ELSE Ok(UTF8Encode(c.type) \o r.val)

----------------------------------------------------------------------------
(* riff/wave.ts: the `data` codec and the registry                         *)

DataDecode(b) == Ok([id |-> DATA_ID, data |-> b])
DataEncode(c) == Ok(c.data)

\* The registry `waveCodec`, and the absent registry (codecs === undefined).
waveCodec == {FMT_ID, LIST_ID, DATA_ID}
noCodecs == {}

CodecDecode(id, b) ==
    CASE id = FMT_ID -> FmtDecode(b)
      [] id = LIST_ID -> ListDecode(b)
      [] id = DATA_ID -> DataDecode(b)

CodecEncode(c) ==
    CASE c.id = FMT_ID -> FmtEncode(c)
      [] c.id = LIST_ID -> ListEncode(c)
      [] c.id = DATA_ID -> DataEncode(c)

----------------------------------------------------------------------------
(* riff/riff.ts: decodeRiff                                                *)

\* The header check: the first byte that differs from "RIFF" throws (an Error,
\* or a TypeError when the blob ends before it).
HeaderOk(b) == \A i \in 1..Len(riff) : i <= Len(b) /\ b[i] = riff[i]

RECURSIVE RiffWalk(_, _, _, _, _)
RiffWalk(contentRaw, pointer, content, unknowns, codecs) ==
    IF ~(pointer < Len(contentRaw))
    THEN Ok([content |-> content, unknowns |-> unknowns])
    ELSE LET id == BlobText(Slice(contentRaw, pointer, pointer + 4))
             sz == Uint32Array(Slice(contentRaw, pointer + 4, pointer + 8))
         IN IF ~sz.ok THEN sz
            ELSE LET subchunkSize == Elem(sz.val, 1)
                     \* slice(pointer + 8, NaN) is empty when the size is undefined
                     subchunkRaw == IF subchunkSize = undefined THEN <<>>
                                    ELSE Slice(contentRaw, pointer + 8, pointer + 8 + subchunkSize)
                     \* pointer becomes NaN when the size is undefined: the loop ends
                     next == IF subchunkSize = undefined THEN Len(contentRaw)
                             ELSE pointer + subchunkSize + 8
                 IN IF id \in codecs
                    THEN LET d == CodecDecode(id, subchunkRaw)
                         IN IF ~d.ok THEN d
                            ELSE RiffWalk(contentRaw, next, Append(content, d.val), unknowns, codecs)
                    ELSE RiffWalk(contentRaw, next, content,
                                  Append(unknowns, [id |-> id, data |-> subchunkRaw]), codecs)

DecodeRiff(b, codecs, validateHeader) ==
    IF validateHeader /\ ~HeaderOk(b) THEN Err("Invalid RIFF header")
    ELSE LET sz == Uint32Array(Slice(b, 4, 8))
         IN IF ~sz.ok THEN sz
            ELSE LET size == Elem(sz.val, 1)
                     type == BlobText(Slice(b, 8, 12))
                     \* slice(12, NaN) is empty when the size is undefined
                     contentRaw == IF size = undefined THEN <<>> ELSE Slice(b, 12, size + 8)
                     w == RiffWalk(contentRaw, 0, <<>>, <<>>, codecs)
                 IN IF ~w.ok THEN w
                    ELSE Ok([type |-> type, content |-> w.val.content, unknowns |-> w.val.unknowns])

----------------------------------------------------------------------------
(* riff/riff.ts: encodeRiff                                                *)

RECURSIVE EncodeContent(_, _, _)
EncodeContent(content, i, codecs) ==
    IF i > Len(content) THEN Ok(<<>>)
    ELSE LET chunkData == content[i]
         IN IF Len(chunkData.id) # 4 THEN Err("Chunk ID must have a length of 4")
            ELSE IF chunkData.id \notin codecs THEN Err("No chunk codec")
            ELSE LET chunk == CodecEncode(chunkData)
                 IN IF ~chunk.ok THEN chunk
                    ELSE LET rest == EncodeContent(content, i + 1, codecs)
                         IN IF ~rest.ok THEN rest
                            ELSE Ok(UTF8Encode(chunkData.id) \o U32LE(Len(chunk.val))
                                      \o chunk.val \o rest.val)

\* encodeRiff as it would be with the canonical RIFF pad byte after an
\* odd-length payload, which decodeRiff does not skip.
RECURSIVE EncodeUnknownsPadded(_, _)
EncodeUnknownsPadded(unknowns, i) ==
    IF i > Len(unknowns) THEN <<>>
    ELSE UTF8Encode(unknowns[i].id) \o U32LE(Len(unknowns[i].data)) \o unknowns[i].data
            \o Zeros(Len(unknowns[i].data) % 2)
            \o EncodeUnknownsPadded(unknowns, i + 1)

RECURSIVE EncodeUnknowns(_, _)
EncodeUnknowns(unknowns, i) ==
    IF i > Len(unknowns) THEN <<>>
    ELSE UTF8Encode(unknowns[i].id) \o U32LE(Len(unknowns[i].data)) \o unknowns[i].data
            \o EncodeUnknowns(unknowns, i + 1)

\* encodeRiff as it would be with a size field that counts the whole blob.
EncodeRiffCountingHeader(file, codecs) ==
    IF Len(file.type) # 4 THEN Err("RIFF type must have a length of 4")
    ELSE LET c == EncodeContent(file.content, 1, codecs)
         IN IF ~c.ok THEN c
            ELSE LET contentBlob == UTF8Encode(file.type) \o c.val
                                        \o EncodeUnknowns(file.unknowns, 1)
                 IN Ok(riff \o U32LE(Len(contentBlob) + 8) \o contentBlob)

EncodeRiff(file, codecs) ==
    IF Len(file.type) # 4 THEN Err("RIFF type must have a length of 4")
    ELSE LET c == EncodeContent(file.content, 1, codecs)
         IN IF ~c.ok THEN c
            ELSE LET contentBlob == UTF8Encode(file.type) \o c.val
                                        \o EncodeUnknowns(file.unknowns, 1)
                 IN Ok(riff \o U32LE(Len(contentBlob)) \o contentBlob)

----------------------------------------------------------------------------
(* Numbers.  A JavaScript number that is a sample is an exact rational       *)
(* [n |-> numerator, d |-> denominator > 0]; float64 rounding is not         *)
(* modelled.  Quantities around 2^32 are held in base 65536: <<hi, lo>> is    *)
(* hi * 65536 + lo with 0 <= lo < 65536.                                     *)

Num(n, d) == [n |-> n, d |-> d]

Big(x) == <<x \div 65536, x % 65536>>
BigAdd(a, b) == <<a[1] + b[1] + ((a[2] + b[2]) \div 65536), (a[2] + b[2]) % 65536>>
BigNeg(a) == IF a[2] = 0 THEN <<-a[1], 0>> ELSE <<-a[1] - 1, 65536 - a[2]>>
BigSub(a, b) == BigAdd(a, BigNeg(b))
BigMul(a, k) == <<a[1] * k + ((a[2] * k) \div 65536), (a[2] * k) % 65536>>
\* floor(a / k) and the remainder, for 0 < k <= 2^14
BigDivMod(a, k) ==
    LET r1 == a[1] % k
        low == r1 * 65536 + a[2]
    IN [q |-> <<a[1] \div k, low \div k>>, r |-> low % k]
BigInt(a) == a[1] * 65536 + a[2]

Pow2(k) == 2 ^ k

RECURSIVE Log2Floor(_)
Log2Floor(m) == IF m <= 1 THEN 0 ELSE 1 + Log2Floor(m \div 2)

\* x as w bits, most significant first
Bin(x, w) == [i \in 1..w |-> (x \div Pow2(w - i)) % 2]

RECURSIVE BinValue(_)
BinValue(bits) ==
    IF bits = <<>> THEN 0 ELSE 2 * BinValue(SubSeq(bits, 1, Len(bits) - 1)) + bits[Len(bits)]

RECURSIVE StripZeros(_)
StripZeros(bits) ==
    IF bits # <<>> /\ bits[Len(bits)] = 0 THEN StripZeros(SubSeq(bits, 1, Len(bits) - 1))
    ELSE bits

\* Math.trunc
Trunc(x) ==
    IF x.n >= 0 \/ x.n % x.d = 0 THEN x.n \div x.d ELSE (x.n \div x.d) + 1

----------------------------------------------------------------------------
(* internal.ts: the sample domain table                                    *)

null == [kind |-> "null"]

PcmRow ==
    [b \in {8, 16, 32} |->
        CASE b = 8 -> [kind |-> "Uint8Array", size |-> 1, rawMin |-> 0, rawMax |-> 255]
          [] b = 16 -> [kind |-> "Int16Array", size |-> 2, rawMin |-> -32768, rawMax |-> 32767]
          [] b = 32 -> [kind |-> "Int32Array", size |-> 4,
                        rawMin |-> -2147483647 - 1, rawMax |-> 2147483647]]

FloatsRow ==
    [b \in {16, 32, 64} |->
        CASE b = 16 -> [kind |-> "Float16Array", size |-> 2, rawMin |-> -1, rawMax |-> 1]
          [] b = 32 -> [kind |-> "Float32Array", size |-> 4, rawMin |-> -1, rawMax |-> 1]
          [] b = 64 -> [kind |-> "Float64Array", size |-> 8, rawMin |-> -1, rawMax |-> 1]]

\* The table as it would be with a 24-bit PCM row held in 32-bit elements.
dtypesWithPcm24(audioFormat, bitsPerChannel) ==
    IF audioFormat \notin {PCM, Floats} THEN Err("TypeError")
    ELSE IF audioFormat = PCM /\ bitsPerChannel = 24 THEN Ok(PcmRow[32])
    ELSE IF audioFormat = PCM /\ bitsPerChannel \in DOMAIN PcmRow THEN Ok(PcmRow[bitsPerChannel])
    ELSE IF audioFormat = Floats /\ bitsPerChannel \in DOMAIN FloatsRow THEN Ok(FloatsRow[bitsPerChannel])
    ELSE Ok(null)

\* dtypes[audioFormat][bitsPerChannel]: a TypeError when the table has no row for
\* audioFormat, undefined (== null) when the row has no such bitsPerChannel.
dtypes(audioFormat, bitsPerChannel) ==
    LET row == IF audioFormat = PCM THEN PcmRow ELSE FloatsRow
    IN IF audioFormat \notin {PCM, Floats} THEN Err("TypeError")
       ELSE IF bitsPerChannel \in DOMAIN row THEN Ok(row[bitsPerChannel])
       ELSE Ok(null)

IsFloatKind(dtype) == dtype.kind \in {"Float16Array", "Float32Array", "Float64Array"}

\* exponent and fraction widths of the IEEE 754 binary formats
ExpBits(dtype) ==
    CASE dtype.kind = "Float16Array" -> 5
      [] dtype.kind = "Float32Array" -> 8
      [] dtype.kind = "Float64Array" -> 11

FracBits(dtype) == 8 * dtype.size - 1 - ExpBits(dtype)

\* rawMax - rawMin
RawSpan(dtype) == BigSub(Big(dtype.rawMax), Big(dtype.rawMin))

----------------------------------------------------------------------------
(* Typed arrays.  An element is held as its bytes in the buffer.            *)

\* The bytes of a float element: zero, or a normal number n / 2^j whose
\* significand fits the format (the only float samples the model draws).
FloatBytes(x, dtype) ==
    LET we == ExpBits(dtype)
        wm == FracBits(dtype)
        m == IF x.n < 0 THEN -x.n ELSE x.n
        L == Log2Floor(m)
        biased == L - Log2Floor(x.d) + Pow2(we - 1) - 1
        bits == <<IF x.n < 0 THEN 1 ELSE 0>> \o Bin(biased, we)
                    \o Bin(m - Pow2(L), L) \o Zeros(wm - L)
    IN IF x.n = 0 THEN Zeros(dtype.size)
       ELSE [k \in 1..dtype.size |->
                BinValue(SubSeq(bits, 8 * (dtype.size - k) + 1, 8 * (dtype.size - k) + 8))]

FloatValue(bytes, dtype) ==
    LET we == ExpBits(dtype)
        bits == Flatten([k \in 1..dtype.size |-> Bin(bytes[dtype.size + 1 - k], 8)])
        biased == BinValue(SubSeq(bits, 2, we + 1))
        frac == StripZeros(SubSeq(bits, we + 2, Len(bits)))
        m == (Pow2(Len(frac)) + BinValue(frac)) * (IF bits[1] = 1 THEN -1 ELSE 1)
        e == biased - (Pow2(we - 1) - 1) - Len(frac)
    IN CASE biased = 0 /\ frac = <<>> -> Num(0, 1)
         [] biased > 0 /\ biased < Pow2(we) - 1 /\ e >= 0 /\ e < 8 -> Num(m * Pow2(e), 1)
         [] biased > 0 /\ biased < Pow2(we) - 1 /\ e < 0 /\ e > -24 -> Num(m, Pow2(-e))
         \* a subnormal, an infinity, a NaN or a magnitude outside 2^-24..2^31:
         \* carried by its bytes
         [] OTHER -> [special |-> bytes]

\* content[i]: the number an element holds
LoadElem(bytes, dtype) ==
    CASE dtype.kind = "Uint8Array" -> Num(bytes[1], 1)
      [] dtype.kind = "Int16Array" ->
            Num(bytes[1] + 256 * (IF bytes[2] >= 128 THEN bytes[2] - 256 ELSE bytes[2]), 1)
      [] dtype.kind = "Int32Array" ->
            Num(bytes[1] + 256 * bytes[2] + 65536 * bytes[3]
                + 16777216 * (IF bytes[4] >= 128 THEN bytes[4] - 256 ELSE bytes[4]), 1)
      [] IsFloatKind(dtype) -> FloatValue(bytes, dtype)

\* ToUint8 / ToInt16 / ToInt32 of an integer (within 32 bits), as bytes
IntBytes(v, dtype) ==
    CASE dtype.kind = "Uint8Array" -> <<v % 256>>
      [] dtype.kind = "Int16Array" -> U16LE(v % 65536)
      [] dtype.kind = "Int32Array" ->
            <<v % 256, (v \div 256) % 256, (v \div 65536) % 256, (v \div 16777216) % 256>>

\* typedArray[i] = x: an integer element takes the truncated value modulo its
\* width, a float element the value itself.
StoreElem(x, dtype) ==
    IF IsFloatKind(dtype) THEN FloatBytes(x, dtype) ELSE IntBytes(Trunc(x), dtype)

\* new ArrayType(buffer)
TypedArrayOf(buffer, dtype) ==
    IF Len(buffer) % dtype.size # 0 THEN Err("RangeError")
    ELSE Ok([i \in 1..(Len(buffer) \div dtype.size) |->
                SubSeq(buffer, (i - 1) * dtype.size + 1, i * dtype.size)])

----------------------------------------------------------------------------
(* The affine maps between normalized samples and raw storage               *)

\* encode.ts: v = (p + 1) / 2 * (rawMax - rawMin) + rawMin, then
\* typedContent[...] = v.  For an integer element the exact v is
\* floor + rem / (2 * p.d); the store truncates it toward zero.
QuantizeStore(p, dtype) ==
    LET scaled == BigDivMod(BigMul(RawSpan(dtype), p.n + p.d), 2 * p.d)
        floorV == BigInt(BigAdd(scaled.q, Big(dtype.rawMin)))
        v == IF floorV < 0 /\ scaled.r # 0 THEN floorV + 1 ELSE floorV
    IN IF IsFloatKind(dtype)
       \* (p + 1) / 2 * 2 + (-1) is p
       THEN FloatBytes(p, dtype)
       ELSE IntBytes(v, dtype)

\* decode: ((v - rawMin) / (rawMax - rawMin)) * 2 - 1 as the exact rational
\* (2 * (v - rawMin) - span) / span, numerator and denominator in base 65536.
\* The Float32Array store rounds it to 24 bits, which is not modelled.
Normalize(v, dtype) ==
    IF IsFloatKind(dtype)
    \* ((v + 1) / 2) * 2 - 1 is v
    THEN (IF "special" \in DOMAIN v THEN v ELSE [n |-> Big(v.n), d |-> Big(v.d)])
    ELSE [n |-> BigSub(BigMul(BigSub(Big(v.n), Big(dtype.rawMin)), 2), RawSpan(dtype)),
          d |-> RawSpan(dtype)]

----------------------------------------------------------------------------
(* Track metadata.  A TrackInfo is a function from the names of the fields   *)
(* that are present to their values; `info: null` is nullInfo.               *)

nullInfo == [null |-> TRUE]
IsNullInfo(info) == "null" \in DOMAIN info

\* The text fields with the LIST keys they map to, in the order of encode.ts.
ICMT == <<73, 67, 77, 84>>
IART == <<73, 65, 82, 84>>
INAM == <<73, 78, 65, 77>>
IPRD == <<73, 80, 82, 68>>
IPRT == <<73, 80, 82, 84>>
ICRD == <<73, 67, 82, 68>>
ISFT == <<73, 83, 70, 84>>

InfoFields ==
    <<[field |-> "comment", key |-> ICMT],
      [field |-> "artist", key |-> IART],
      [field |-> "trackName", key |-> INAM],
      [field |-> "albumName", key |-> IPRD],
      [field |-> "albumTrackId", key |-> IPRT],
      [field |-> "copyrightDate", key |-> ICRD],
      [field |-> "software", key |-> ISFT]>>

\* NaN, as the result of converting text that is not a number
NaN == -2147483647

\* `${albumTrackId}` for an integer
RECURSIVE Digits(_)
Digits(n) == IF n < 10 THEN <<48 + n>> ELSE Digits(n \div 10) \o <<48 + (n % 10)>>
NumberToString(n) == IF n < 0 THEN <<45>> \o Digits(-n) ELSE Digits(n)

\* +text for a non-empty text: an optional sign and decimal digits give the
\* integer, anything else in the model's alphabets gives NaN.
RECURSIVE DigitsValue(_)
DigitsValue(str) ==
    IF str = <<>> THEN 0 ELSE 10 * DigitsValue(SubSeq(str, 1, Len(str) - 1)) + (str[Len(str)] - 48)
IsDigits(str) == str # <<>> /\ \A i \in 1..Len(str) : str[i] >= 48 /\ str[i] <= 57
StringToNumber(str) ==
    IF IsDigits(str) THEN DigitsValue(str)
    ELSE IF str[1] = 45 /\ IsDigits(Tail(str)) THEN -DigitsValue(Tail(str))
    ELSE IF str[1] = 43 /\ IsDigits(Tail(str)) THEN DigitsValue(Tail(str))
    ELSE NaN

\* encode.ts 20-30: the entries of the LIST/INFO chunk
RECURSIVE InfoEntriesFrom(_, _)
InfoEntriesFrom(info, k) ==
    IF k > Len(InfoFields) THEN <<>>
    ELSE LET f == InfoFields[k].field
             rest == InfoEntriesFrom(info, k + 1)
         IN IF f \notin DOMAIN info THEN rest
            ELSE IF f = "albumTrackId"                       \* albumTrackId != null
            THEN <<<<InfoFields[k].key, NumberToString(info[f])>>>> \o rest
            ELSE IF info[f] # <<>>                           \* if (comment) ...
            THEN <<<<InfoFields[k].key, info[f]>>>> \o rest
            ELSE rest

\* decodeWav 24-35: the projection of the entries back to a TrackInfo
Truthy(entries, key) == key \in EntryNames(entries) /\ EntryValue(entries, key) # <<>>

InfoFromEntries(entries) ==
    LET present == {k \in 1..Len(InfoFields) : Truthy(entries, InfoFields[k].key)}
        keyOf(f) == InfoFields[CHOOSE k \in present : InfoFields[k].field = f].key
    IN [f \in {InfoFields[k].field : k \in present} |->
            IF f = "albumTrackId" THEN StringToNumber(EntryValue(entries, keyOf(f)))
            ELSE EntryValue(entries, keyOf(f))]

----------------------------------------------------------------------------
(* encode.ts: encodeWav                                                    *)

Modes == {"raw-blob", "raw-buffer", "channels-fmt", "channels-float32"}

\* The encoder's loops as they would be with planar storage: channels[ch][i]
\* written to typedContent[ch * samples + i].
InterleavePlanar(channels, samples, N, dtype, mode) ==
    Flatten([k \in 1..(samples * N) |->
        LET ch == (k - 1) \div samples
            i == (k - 1) % samples
            x == channels[ch + 1][i + 1]
        IN IF mode = "channels-fmt" THEN StoreElem(x, dtype) ELSE QuantizeStore(x, dtype)])

\* channels[ch][i] written to typedContent[i * format.channels + ch]; the typed
\* array starts zeroed, so an element the loops do not write stays 0.
Interleave(channels, samples, N, dtype, mode) ==
    Flatten([k \in 1..(samples * N) |->
        LET i == (k - 1) \div N
            ch == (k - 1) % N
            x == channels[ch + 1][i + 1]
        IN IF mode = "channels-fmt" THEN StoreElem(x, dtype) ELSE QuantizeStore(x, dtype)])

EncodeSamples(wav, mode) ==
    LET dt == dtypes(wav.format.audioFormat, wav.format.bitsPerChannel)
    IN IF ~dt.ok THEN dt
       ELSE IF dt.val = null THEN Err("Unsupported bits per channel")
       ELSE IF Len(wav.data) = 0 THEN Err("TypeError")          \* channels[0].length
       ELSE LET samples == Len(wav.data[1])
                N == wav.format.channels
            IN IF samples > 0 /\ N > Len(wav.data) THEN Err("TypeError")   \* channels[ch][i]
               ELSE Ok(Interleave(wav.data, samples, N, dt.val, mode))

EncodeWav(wav, mode) ==
    LET content == IF mode \in {"raw-blob", "raw-buffer"} THEN Ok(wav.data)
                   ELSE IF mode \in {"channels-fmt", "channels-float32"}
                   THEN EncodeSamples(wav, mode)
                   ELSE Err("Unknown input mode")
    IN IF ~content.ok THEN content
       ELSE EncodeRiff(
              [type |-> WAVE,
               content |-> <<WithId(FMT_ID, wav.format), [id |-> DATA_ID, data |-> content.val]>>
                   \o (IF IsNullInfo(wav.info) THEN <<>>
                       ELSE <<[id |-> LIST_ID, type |-> INFO,
                               entries |-> InfoEntriesFrom(wav.info, 1)]>>),
               unknowns |-> <<>>],
              waveCodec)

----------------------------------------------------------------------------
(* decodeWav                                                               *)

\* The lookup as it would be with findLast: the index of the last such chunk.
FindLastChunk(content, matching) ==
    IF matching = {} THEN 0 ELSE CHOOSE i \in matching : \A j \in matching : i >= j

\* file.content.find(c => c.id == id): the index of the first such chunk, or 0
FindChunk(content, matching) ==
    IF matching = {} THEN 0 ELSE CHOOSE i \in matching : \A j \in matching : i <= j

\* The sample count as it would be without the division of the bits by 8.
SampleCountInBits(byteLength, format) ==
    LET den == format.bitsPerChannel * format.channels
    IN IF format.bitsPerChannel = undefined \/ format.channels = undefined
       THEN [kind |-> "NaN"]
       ELSE IF den = 0
       THEN (IF byteLength = 0 THEN [kind |-> "NaN"] ELSE [kind |-> "Infinity"])
       ELSE [kind |-> "finite", n |-> byteLength, d |-> den]

\* buffer.byteLength / (format.bitsPerChannel * format.channels / 8)
SampleCount(byteLength, format) ==
    LET den == format.bitsPerChannel * format.channels
    IN IF format.bitsPerChannel = undefined \/ format.channels = undefined
       THEN [kind |-> "NaN"]
       ELSE IF den = 0
       THEN (IF byteLength = 0 THEN [kind |-> "NaN"] ELSE [kind |-> "Infinity"])
       ELSE [kind |-> "finite", n |-> 8 * byteLength, d |-> den]

\* The loops of decodeWav do not end: `i < samples` with samples = Infinity.
Diverges == [ok |-> FALSE, err |-> "", diverges |-> TRUE]

\* The de-interleaving of modes channels-fmt and channels-float32.
\* new Array(undefined) has one element; new ArrayType(n) has length
\* trunc(n), length 0 for NaN, and throws for Infinity.
Deinterleave(buffer, format, dtype, mode) ==
    LET content == TypedArrayOf(buffer, dtype)
        samples == SampleCount(Len(buffer), format)
        N == format.channels
        count == IF N = undefined THEN 1 ELSE N
        length == IF samples.kind = "finite" THEN samples.n \div samples.d ELSE 0
        out(el) == IF mode = "channels-fmt"
                   THEN (IF IsFloatKind(dtype) THEN el ELSE StoreElem(LoadElem(el, dtype), dtype))
                   ELSE Normalize(LoadElem(el, dtype), dtype)
    IN IF ~content.ok THEN content
       ELSE IF samples.kind = "Infinity" /\ count >= 1 THEN Err("RangeError")
       ELSE IF samples.kind = "Infinity" THEN Diverges
       ELSE Ok([ch \in 1..count |->
                  [i \in 1..length |-> out(content.val[(i - 1) * N + ch])]])

IsFmt(c) == c.id = FMT_ID
IsData(c) == c.id = DATA_ID
IsInfoList(c) == c.id = LIST_ID /\ c.type = INFO

\* the switch on the output mode
DecodeWavData(format, raw, mode, dt) ==
    IF mode \in {"raw-blob", "raw-buffer"} THEN Ok(raw.data)
    ELSE IF mode \notin Modes THEN Err("Unknown output mode")
    ELSE IF ~dt.ok THEN dt
    ELSE IF dt.val = null THEN Err("Unsupported bits per channel")
    ELSE Deinterleave(raw.data, format, dt.val, mode)

\* return { format, info, data }
DecodeWavResult(format, info, data) ==
    IF ~data.ok THEN data ELSE Ok([format |-> format, info |-> info, data |-> data.val])

\* the lookups of the `fmt `, `data` and LIST/INFO chunks and their checks
DecodeWavContent(content, fi, ri, li, mode) ==
    IF fi = 0 THEN Err("Missing 'fmt ' chunk")
    ELSE IF ri = 0 THEN Err("Missing 'data' chunk")
    ELSE DecodeWavResult(content[fi],
            IF li = 0 THEN nullInfo ELSE InfoFromEntries(content[li].entries),
            DecodeWavData(content[fi], content[ri], mode,
                dtypes(content[fi].audioFormat, content[fi].bitsPerChannel)))

DecodeWavFile(file, mode) ==
    IF ~file.ok THEN file
    ELSE DecodeWavContent(file.val.content,
            FindChunk(file.val.content, {i \in 1..Len(file.val.content) : IsFmt(file.val.content[i])}),
            FindChunk(file.val.content, {i \in 1..Len(file.val.content) : IsData(file.val.content[i])}),
            FindChunk(file.val.content, {i \in 1..Len(file.val.content) : IsInfoList(file.val.content[i])}),
            mode)

DecodeWav(b, mode) == DecodeWavFile(DecodeRiff(b, waveCodec, TRUE), mode)

----------------------------------------------------------------------------
(* Inputs of the container layer                                           *)

MaxChunks == 2

\* A well-formed `fmt ` chunk: PCM, 2 channels, 44100 Hz, 16 bits.
StdFormat ==
    [audioFormat |-> PCM, channels |-> 2, sampleRate |-> 44100,
     byteRate |-> 176400, blockAlign |-> 4, bitsPerChannel |-> 16]

\* "WAVE", "WAV", and "WAV" followed by U+00E9 (four characters, five bytes)
RiffTypes == {WAVE, <<87, 65, 86>>, <<87, 65, 86, 233>>}

\* "abcd", "abc", "abcde", and "a" U+00E9 "cd" (four characters, five bytes)
UnknownIds == {<<97, 98, 99, 100>>, <<97, 98, 99>>, <<97, 98, 99, 100, 101>>,
               <<97, 233, 99, 100>>}

Payloads == {<<>>, <<7>>, <<255, 0>>}

UnknownChunks == {[id |-> i, data |-> d] : i \in UnknownIds, d \in Payloads}

\* Typed content: a `fmt ` chunk, a `data` chunk of 3 bytes, chunks whose ids
\* have 3 and 5 characters, and a chunk with a 4-character id that has no codec
\* ("JUNK").
ContentChunks ==
    {WithId(FMT_ID, StdFormat),
     [id |-> DATA_ID, data |-> <<7, 8, 9>>],
     [id |-> <<100, 97, 116>>, data |-> <<7>>],
     [id |-> <<100, 97, 116, 97, 120>>, data |-> <<7>>],
     [id |-> <<74, 85, 78, 75>>, data |-> <<7>>]}

RiffFiles ==
    {[type |-> t, content |-> c, unknowns |-> u] :
        t \in RiffTypes,
        <<c, u>> \in {p \in SeqsUpTo(ContentChunks, MaxChunks) \X SeqsUpTo(UnknownChunks, MaxChunks) :
                        Len(p[1]) + Len(p[2]) <= MaxChunks}}

\* Blobs from outside: a container header, whole records, and then the first
\* `tail` bytes of one more record header (0 <= tail <= 7).
RawRecord(id, payload) == id \o U32LE(Len(payload)) \o payload

WholeRecords ==
    {RawRecord(<<97, 98, 99, 100>>, <<7>>),
     RawRecord(DATA_ID, <<1, 0, 2, 0>>),
     RawRecord(FMT_ID, FmtEncode(StdFormat).val),
     RawRecord(LIST_ID, INFO)}

HeaderStarts ==
    {DATA_ID \o <<1, 0, 0>>, FMT_ID \o <<16, 0, 0>>, <<97, 98, 99, 100, 2, 0, 0>>}

Magics == {riff, <<82, 73, 70, 88>>}

Container(magic, records, tailBytes) ==
    LET body == WAVE \o Flatten(records) \o tailBytes
    IN magic \o U32LE(Len(body)) \o body

----------------------------------------------------------------------------
(* The callers of the container layer                                      *)

NoCall == [op |-> "none"]

Init ==
    /\ pc = "idle"
    /\ call = NoCall
    /\ blob = <<>>
    /\ ret = Ok(<<>>)

\* encodeRiff(file, codecs)
EncodeRiffCall ==
    /\ pc = "idle"
    /\ \E file \in RiffFiles, codecs \in {waveCodec, noCodecs} :
          LET r == EncodeRiff(file, codecs)
          IN /\ call' = [op |-> "encodeRiff", file |-> file, codecs |-> codecs]
             /\ ret' = r
             /\ blob' = IF r.ok THEN r.val ELSE <<>>
             /\ pc' = IF r.ok THEN "encoded" ELSE "done"

\* A blob that did not come from this encoder.
ReceiveBlob ==
    /\ pc = "idle"
    /\ \E magic \in Magics, records \in SeqsUpTo(WholeRecords, MaxChunks),
          h \in HeaderStarts, tail \in 0..7 :
          /\ call' = [op |-> "receive", records |-> Len(records), tail |-> tail]
          /\ blob' = Container(magic, records, SubSeq(h, 1, tail))
    /\ pc' = "received"
    /\ ret' = Ok(<<>>)

\* decodeRiff(blob, codecs, { validateHeader })
DecodeRiffCall ==
    /\ pc \in {"encoded", "received"}
    /\ \E codecs \in {waveCodec, noCodecs}, validateHeader \in BOOLEAN :
          /\ call' = [op |-> "decodeRiff", from |-> call, codecs |-> codecs,
                      validateHeader |-> validateHeader]
          /\ ret' = DecodeRiff(blob, codecs, validateHeader)
    /\ pc' = "done"
    /\ UNCHANGED blob

NextRiff == EncodeRiffCall \/ ReceiveBlob \/ DecodeRiffCall

SpecRiff == Init /\ [][NextRiff]_vars

----------------------------------------------------------------------------
(* Inputs of the WAVE layer                                                *)

MaxChannels == 2
MaxSamples == 2

\* Formats: every (audioFormat, bitsPerChannel) pair of the table and pairs
\* outside it (PCM 24 and 64, Floats 8 and 24).
Formats ==
    {[audioFormat |-> a, channels |-> n, sampleRate |-> 44100,
      byteRate |-> 44100 * n * (b \div 8), blockAlign |-> n * (b \div 8),
      bitsPerChannel |-> b] :
        a \in {PCM, Floats}, b \in {8, 16, 24, 32, 64}, n \in 1..MaxChannels}

\* Normalized samples in [-1, 1], exact in every float format.
NormalizedSamples == {Num(-1, 1), Num(1, 2)}

\* Samples in the native range of the element type.
NativeSamples(format) ==
    CASE format.audioFormat = Floats -> NormalizedSamples
      [] format.bitsPerChannel = 8 -> {Num(0, 1), Num(200, 1)}
      [] format.bitsPerChannel = 16 -> {Num(-32768, 1), Num(7, 1)}
      [] OTHER -> {Num(-2147483647, 1), Num(7, 1)}

\* N channel arrays of equal length
ChannelData(N, S) == UNION {[1..N -> [1..len -> S]] : len \in 0..MaxSamples}

\* 0, 1, 3, 4 and 8 bytes; the last holds the float16 values 1, -1, 0.5, 0.
WavPayloads == {<<>>, <<7>>, <<7, 8, 9>>, <<1, 0, 2, 0>>, <<0, 60, 0, 188, 0, 56, 0, 0>>}

SmallInfos == {nullInfo, [f \in {"software"} |-> <<78>>]}

\* The `data` of a WaveFile for the mode it is encoded in: bytes for the raw
\* modes, one array per channel for the channel modes.
WavData(format, mode) ==
    CASE mode \in {"raw-blob", "raw-buffer"} -> WavPayloads
      [] mode = "channels-fmt" -> ChannelData(format.channels, NativeSamples(format))
      [] OTHER -> ChannelData(format.channels, NormalizedSamples)

\* Records of blobs from outside: two `fmt ` chunks, two `data` chunks, a
\* LIST/INFO chunk and a chunk no codec knows.
MonoFormat ==
    [audioFormat |-> PCM, channels |-> 1, sampleRate |-> 8000,
     byteRate |-> 8000, blockAlign |-> 1, bitsPerChannel |-> 8]

WavRecords ==
    {[id |-> FMT_ID, payload |-> FmtEncode(StdFormat).val],
     [id |-> FMT_ID, payload |-> FmtEncode(MonoFormat).val],
     [id |-> DATA_ID, payload |-> <<1, 0, 2, 0>>],
     [id |-> DATA_ID, payload |-> <<9, 8, 7, 6, 5, 4, 3, 2>>],
     [id |-> LIST_ID, payload |-> INFO \o RawRecord(IART, <<65, 0>>)],
     [id |-> <<97, 98, 99, 100>>, payload |-> <<7>>]}

MaxRecords == 3

\* Track metadata: each text field absent, empty, or a text whose UTF-8 length
\* is odd for some fields and even for others; the track number absent, 0 or 12.
InfoTexts ==
    [comment |-> <<104, 105>>, artist |-> <<65>>, trackName |-> <<84, 233>>,
     albumName |-> <<65, 108, 98>>, copyrightDate |-> <<50, 48, 50, 52>>,
     software |-> <<78>>]

TrackInfos ==
    UNION {{[f \in S |-> IF f = "albumTrackId" THEN g[f] ELSE (IF g[f] = 0 THEN <<>> ELSE InfoTexts[f])] :
                g \in [S -> {0, 12}]}
            : S \in SUBSET {InfoFields[k].field : k \in 1..Len(InfoFields)}}

----------------------------------------------------------------------------
(* The callers of the WAVE layer                                           *)

\* encodeWav(wav, mode)
EncodeWavCall ==
    /\ pc = "idle"
    /\ \E format \in Formats, info \in SmallInfos, mode \in Modes :
          \E data \in WavData(format, mode) :
              LET wav == [format |-> format, info |-> info, data |-> data]
                  r == EncodeWav(wav, mode)
              IN /\ call' = [op |-> "encodeWav", wav |-> wav, mode |-> mode]
                 /\ ret' = r
                 /\ blob' = IF r.ok THEN r.val ELSE <<>>
                 /\ pc' = IF r.ok THEN "encoded" ELSE "done"

\* encodeWav(wav, "raw-blob") of a file with track metadata
EncodeInfoCall ==
    /\ pc = "idle"
    /\ \E info \in TrackInfos :
          LET wav == [format |-> MonoFormat, info |-> info, data |-> <<7>>]
              r == EncodeWav(wav, "raw-blob")
          IN /\ call' = [op |-> "encodeWav", wav |-> wav, mode |-> "raw-blob"]
             /\ ret' = r
             /\ blob' = IF r.ok THEN r.val ELSE <<>>
             /\ pc' = IF r.ok THEN "encoded" ELSE "done"

\* A .wav blob that did not come from this encoder.
ReceiveWavBlob ==
    /\ pc = "idle"
    /\ \E records \in SeqsUpTo(WavRecords, MaxRecords) :
          /\ call' = [op |-> "receive", records |-> records, tail |-> 0]
          /\ blob' = Container(riff,
                        [i \in 1..Len(records) |-> RawRecord(records[i].id, records[i].payload)],
                        <<>>)
    /\ pc' = "received"
    /\ ret' = Ok(<<>>)

\* decodeWav(blob, mode)
DecodeWavCall ==
    /\ pc \in {"encoded", "received"}
    /\ \E mode \in Modes :
          /\ call' = [op |-> "decodeWav", from |-> call, mode |-> mode, i |-> 0]
          /\ ret' = DecodeWav(blob, mode)
    /\ pc' = IF ret' = Diverges THEN "looping" ELSE "done"
    /\ UNCHANGED blob

\* Iterations of the outer loop that `i < samples` never ends.  `i` grows by
\* one until the addition no longer changes it.
MaxIterations == 3

\* for (let i = 0; i < samples; i++) with samples = Infinity and no channels
DeinterleaveStep ==
    /\ pc = "looping"
    /\ call.i < MaxIterations
    /\ call' = [call EXCEPT !.i = @ + 1]
    /\ UNCHANGED <<pc, blob, ret>>

NextWav == EncodeWavCall \/ ReceiveWavBlob \/ DecodeWavCall

SpecWav == Init /\ [][NextWav]_vars

NextInfo == EncodeInfoCall \/ DecodeRiffCall \/ DecodeWavCall

SpecInfo == Init /\ [][NextInfo]_vars

----------------------------------------------------------------------------
(* decodeWav of files whose `fmt ` chunk declares any channel count and    *)
(* any sample width                                                        *)

\* `fmt ` chunks as they come out of fmt.decode: channels and bitsPerChannel
\* are any 16-bit values, 0 included.
DeclaredFormats ==
    {[audioFormat |-> a, channels |-> n, sampleRate |-> 8000,
      byteRate |-> 8000 * n * (b \div 8), blockAlign |-> n * (b \div 8),
      bitsPerChannel |-> b] :
        a \in {PCM, Floats}, n \in {0, 1, 2}, b \in {0, 8, 16, 32}}

DeclaredData == {<<>>, <<7>>, <<1, 0>>, <<1, 0, 2, 0>>}

\* A .wav blob with one `fmt ` chunk and one `data` chunk.
ReceiveDeclaredBlob ==
    /\ pc = "idle"
    /\ \E format \in DeclaredFormats, data \in DeclaredData :
          /\ call' = [op |-> "receive", format |-> format, data |-> data]
          /\ blob' = Container(riff,
                        <<RawRecord(FMT_ID, FmtEncode(format).val), RawRecord(DATA_ID, data)>>,
                        <<>>)
    /\ pc' = "received"
    /\ ret' = Ok(<<>>)

NextDeclared == ReceiveDeclaredBlob \/ DecodeWavCall \/ DeinterleaveStep

\* Whether decodeWav is called is up to the caller; a call that has started
\* goes on running.
SpecDeclared == Init /\ [][NextDeclared]_vars /\ WF_vars(DeinterleaveStep)

----------------------------------------------------------------------------
(* The callers of the `fmt ` codec                                         *)

\* Formats inside and outside the WaveAudioFormat enumeration.
FmtFormats ==
    {[audioFormat |-> a, channels |-> n, sampleRate |-> r,
      byteRate |-> r * n * (b \div 8), blockAlign |-> n * (b \div 8),
      bitsPerChannel |-> b] :
        a \in {0, 1, 2, 3, 6, 65534}, n \in {1, 2}, r \in {8000, 44100}, b \in {8, 16}}

\* Lengths of the payloads from outside: cut short, exact, and extended by a
\* 2-byte extension size.
FmtCuts == {0, 1, 2, 3, 4, 15, 16, 18}

\* fmt.encode(format)
FmtEncodeCall ==
    /\ pc = "idle"
    /\ \E format \in FmtFormats :
          /\ call' = [op |-> "fmt.encode", format |-> format]
          /\ ret' = FmtEncode(format)
          /\ blob' = FmtEncode(format).val
    /\ pc' = "encoded"

\* A `fmt ` payload that did not come from this encoder.
ReceiveFmtPayload ==
    /\ pc = "idle"
    /\ \E format \in FmtFormats, cut \in FmtCuts :
          /\ call' = [op |-> "receive", format |-> format, cut |-> cut]
          /\ blob' = SubSeq(FmtEncode(format).val \o <<0, 0>>, 1, cut)
    /\ pc' = "received"
    /\ ret' = Ok(<<>>)

\* fmt.decode(blob)
FmtDecodeCall ==
    /\ pc \in {"encoded", "received"}
    /\ call' = [op |-> "fmt.decode", from |-> call]
    /\ ret' = FmtDecode(blob)
    /\ pc' = "done"
    /\ UNCHANGED blob

NextFmt == FmtEncodeCall \/ ReceiveFmtPayload \/ FmtDecodeCall

SpecFmt == Init /\ [][NextFmt]_vars

----------------------------------------------------------------------------
(* The callers of the `LIST` codec.  Every iteration of list.decode ends   *)
(* at an await, so that one iteration is one step.                         *)

\* Declared sizes of an entry, in base 65536: small ones, and the ones around
\* 2^31 and 2^32.
ListSizes ==
    {<<0, 0>>, <<0, 1>>, <<0, 2>>, <<0, 3>>, <<32767, 65534>>, <<32767, 65535>>,
     <<32768, 0>>, <<65535, 65534>>, <<65535, 65535>>}

\* The bytes that follow the size field of the first entry.
ListTails == {<<>>, <<65, 0>>, <<65, 66, 0, 0>>, <<65, 66, 67, 0>> \o INAM \o <<0, 0, 0, 0>>}

\* A LIST payload whose first entry declares `size`.
ListPayload(name, size, tail) ==
    INFO \o name \o U16LE(size[2]) \o U16LE(size[1]) \o tail

\* A `LIST` payload that did not come from this encoder.
ReceiveListPayload ==
    /\ pc = "idle"
    /\ \E name \in {IART, INAM}, size \in ListSizes, tail \in ListTails :
          /\ call' = [op |-> "receive", name |-> name, size |-> size, tail |-> tail]
          /\ blob' = ListPayload(name, size, tail)
    /\ pc' = "received"
    /\ ret' = Ok(<<>>)

\* list.decode(blob) up to the first test of the loop condition
ListDecodeCall ==
    /\ pc = "received"
    /\ call' = [op |-> "list.decode", pointer |-> 4, prev |-> 4, sized |-> FALSE,
                size |-> <<0, 0>>, entries |-> <<>>]
    /\ pc' = "listing"
    /\ ret' = Ok(<<>>)
    /\ UNCHANGED blob

\* The loop has ended or an iteration has thrown.
ListDecodeReturn ==
    /\ pc = "listing"
    /\ \/ /\ ~(call.pointer < Len(blob))
          /\ ret' = Ok([id |-> LIST_ID, type |-> BlobText(Slice(blob, 0, 4)),
                        entries |-> call.entries])
       \/ /\ call.pointer < Len(blob)
          /\ ~(call.pointer + 8 <= -Len(blob))
          /\ ~ListDecodeIteration(blob, call.pointer, call.entries).ok
          /\ ret' = ListDecodeIteration(blob, call.pointer, call.entries)
    /\ pc' = "done"
    /\ UNCHANGED <<call, blob>>

\* One iteration of the loop; the iterations in which every slice is empty are
\* taken together.
ListDecodeStep ==
    /\ pc = "listing"
    /\ call.pointer < Len(blob)
    /\ IF call.pointer + 8 <= -Len(blob)
       THEN call' = [call EXCEPT !.pointer = SkipIdle(blob, call.pointer), !.prev = call.pointer,
                                  !.sized = FALSE, !.size = <<0, 0>>,
                                  !.entries = SetEntry(call.entries, <<>>, <<>>)]
       ELSE /\ ListDecodeIteration(blob, call.pointer, call.entries).ok
            /\ call' = ListDecodeIteration(blob, call.pointer, call.entries).val
                            @@ [op |-> "list.decode", prev |-> call.pointer]
    /\ UNCHANGED <<pc, blob, ret>>

NextList == ReceiveListPayload \/ ListDecodeCall \/ ListDecodeStep \/ ListDecodeReturn

SpecList == Init /\ [][NextList]_vars

----------------------------------------------------------------------------
(* One 16-bit PCM sample through encodeWav and decodeWav                   *)

SampleFormat ==
    [audioFormat |-> PCM, channels |-> 1, sampleRate |-> 44100,
     byteRate |-> 88200, blockAlign |-> 2, bitsPerChannel |-> 16]

\* The samples are the fractions k / D of [-1, 1] with D up to MaxDen.
MaxDen == 12

\* encodeWav(wav, "channels-float32") of one sample
EncodeSampleCall ==
    /\ pc = "idle"
    /\ \E D \in 1..MaxDen :
          \E k \in (-D)..D :
              LET wav == [format |-> SampleFormat, info |-> nullInfo, data |-> <<<<Num(k, D)>>>>]
                  r == EncodeWav(wav, "channels-float32")
              IN /\ call' = [op |-> "encodeWav", wav |-> wav, mode |-> "channels-float32"]
                 /\ ret' = r
                 /\ blob' = IF r.ok THEN r.val ELSE <<>>
                 /\ pc' = IF r.ok THEN "encoded" ELSE "done"

NextSample == EncodeSampleCall \/ DecodeWavCall

SpecSample == Init /\ [][NextSample]_vars

----------------------------------------------------------------------------
(* Properties of the container layer                                       *)

IsAscii(str) == \A i \in 1..Len(str) : str[i] < 128

DecodedFromEncodeRiff ==
    pc = "done" /\ call.op = "decodeRiff" /\ call.from.op = "encodeRiff"

\* A file with only unknown chunks, none of which the decoder's registry claims.
OnlyUnknowns(f, codecs) ==
    /\ Len(f.type) = 4
    /\ f.content = <<>>
    /\ \A i \in 1..Len(f.unknowns) :
          Len(f.unknowns[i].id) = 4 /\ f.unknowns[i].id \notin codecs

AsciiTags(f) ==
    IsAscii(f.type) /\ \A i \in 1..Len(f.unknowns) : IsAscii(f.unknowns[i].id)

SameRiffFile(f, r) ==
    /\ r.ok
    /\ r.val.type = f.type
    /\ r.val.content = <<>>
    /\ Len(r.val.unknowns) = Len(f.unknowns)
    /\ \A i \in 1..Len(f.unknowns) :
          /\ r.val.unknowns[i].id = f.unknowns[i].id
          /\ r.val.unknowns[i].data = f.unknowns[i].data

\* C1 as stated: for every file whose type and unknown-chunk ids have 4
\* characters and whose content list is empty, decodeRiff(encodeRiff(f)) gives
\* back the type, an empty content list and the unknown chunks, byte for byte and
\* in order.
C1_RoundTripAnyCharacters ==
    (DecodedFromEncodeRiff /\ OnlyUnknowns(call.from.file, call.codecs))
        => SameRiffFile(call.from.file, ret)

\* C1, amended: the same round trip for files whose type and ids are 4 ASCII
\* characters (each character one byte of the blob).
C1_RoundTripAsciiTags ==
    (DecodedFromEncodeRiff /\ OnlyUnknowns(call.from.file, call.codecs)
        /\ AsciiTags(call.from.file))
        => SameRiffFile(call.from.file, ret)

\* A round trip of two unknown chunks, one with an odd-length payload and one
\* with an empty payload.
C1_Witness ==
    /\ DecodedFromEncodeRiff
    /\ OnlyUnknowns(call.from.file, call.codecs)
    /\ AsciiTags(call.from.file)
    /\ Len(call.from.file.unknowns) = 2
    /\ Len(call.from.file.unknowns[1].data) = 1
    /\ Len(call.from.file.unknowns[2].data) = 0
    /\ SameRiffFile(call.from.file, ret)

HasBadId(chunks) == \E i \in 1..Len(chunks) : Len(chunks[i].id) # 4

\* C2 as stated: encodeRiff fails whenever a chunk of the file, in the content
\* list or in the unknowns list and at any position, has an id that is not
\* exactly 4 characters.
C2_BadIdAlwaysFails ==
    (call.op = "encodeRiff"
        /\ (HasBadId(call.file.content) \/ HasBadId(call.file.unknowns)))
        => ~ret.ok

\* C3 as stated: decodeRiff throws whenever the walk reaches a cursor with 1 to 7
\* bytes left, too few for the id and the size of a record.
C3_TruncatedHeaderFails ==
    (pc = "done" /\ call.op = "decodeRiff" /\ call.from.op = "receive"
        /\ call.from.tail \in 1..7)
        => ~ret.ok

\* The payload a chunk of the file is written with, and the chunks of a file
\* in the order of their records.
PayloadOf(chunk) == IF chunk.id = FMT_ID THEN FmtEncode(chunk).val ELSE chunk.data

ChunksInOrder(file) ==
    [i \in 1..(Len(file.content) + Len(file.unknowns)) |->
        IF i <= Len(file.content)
        THEN [id |-> file.content[i].id, payload |-> PayloadOf(file.content[i])]
        ELSE [id |-> file.unknowns[i - Len(file.content)].id,
              payload |-> file.unknowns[i - Len(file.content)].data]]

U32At(b, pos) ==
    b[pos + 1] + 256 * b[pos + 2] + 65536 * b[pos + 3] + 16777216 * b[pos + 4]

\* From offset pos on, b holds exactly the records of chunks i, i + 1, ...: the
\* bytes of the id, a size field equal to the length of the payload, the payload,
\* and the next record right after it.
RECURSIVE RecordsFrom(_, _, _, _)
RecordsFrom(b, pos, chunks, i) ==
    IF i > Len(chunks) THEN pos = Len(b)
    ELSE LET idBytes == UTF8Encode(chunks[i].id)
             sizeAt == pos + Len(idBytes)
         IN /\ sizeAt + 4 <= Len(b)
            /\ SubSeq(b, pos + 1, sizeAt) = idBytes
            /\ U32At(b, sizeAt) = Len(chunks[i].payload)
            /\ SubSeq(b, sizeAt + 5, sizeAt + 4 + U32At(b, sizeAt)) = chunks[i].payload
            /\ RecordsFrom(b, sizeAt + 4 + U32At(b, sizeAt), chunks, i + 1)

\* C11: in every blob encodeRiff returns, the size field at bytes 4-8 is the
\* length of the blob minus 8, the type tag follows, and then come the records
\* of the content chunks in order and of the unknown chunks in order, each with
\* a size field equal to the length of its payload and the next record (or the
\* end of the blob) right after the payload, with no pad byte.
C11_EncodedLayout ==
    (call.op = "encodeRiff" /\ ret.ok)
        => /\ blob = ret.val
           /\ SubSeq(blob, 1, 4) = riff
           /\ U32At(blob, 4) = Len(blob) - 8
           /\ SubSeq(blob, 9, 8 + Len(UTF8Encode(call.file.type))) = UTF8Encode(call.file.type)
           /\ RecordsFrom(blob, 8 + Len(UTF8Encode(call.file.type)),
                          ChunksInOrder(call.file), 1)

\* encodeRiff of a `data` content chunk of 3 bytes followed by an unknown chunk
\* of 1 byte.
C11_Witness ==
    /\ call.op = "encodeRiff"
    /\ ret.ok
    /\ Len(call.file.content) = 1
    /\ call.file.content[1].id = DATA_ID
    /\ Len(call.file.unknowns) = 1
    /\ Len(call.file.unknowns[1].data) = 1
    /\ Len(blob) = 12 + 8 + 3 + 8 + 1

----------------------------------------------------------------------------
(* Properties of the WAVE layer                                            *)

FormatFields ==
    {"audioFormat", "channels", "sampleRate", "byteRate", "blockAlign", "bitsPerChannel"}

SameFormat(a, b) == \A k \in FormatFields : a[k] = b[k]

\* The (audioFormat, bitsPerChannel) pairs of the sample domain table
SupportedPairs ==
    {<<PCM, 8>>, <<PCM, 16>>, <<PCM, 32>>, <<Floats, 16>>, <<Floats, 32>>, <<Floats, 64>>}

IsSupported(format) == <<format.audioFormat, format.bitsPerChannel>> \in SupportedPairs

ElementSize(format) == format.bitsPerChannel \div 8

DecodedFromEncodeWav ==
    pc = "done" /\ call.op = "decodeWav" /\ call.from.op = "encodeWav"

DecodedFromReceived ==
    pc = "done" /\ call.op = "decodeWav" /\ call.from.op = "receive"

\* The blob of encodeWav is RIFF, size, WAVE, `fmt ` (8 + 16 bytes), then the
\* `data` record: its payload starts at byte 44.
DataLength(b) == b[41] + 256 * b[42] + 65536 * b[43] + 16777216 * b[44]
DataPayload(b) == SubSeq(b, 45, 44 + DataLength(b))
FlatElement(payload, k, size) == SubSeq(payload, k * size + 1, (k + 1) * size)

\* C4: for a supported format with N >= 1 channels and N channel arrays of
\* equal length S, decodeWav(encodeWav(f, "channels-float32"),
\* "channels-float32") returns N arrays, each of length S, and the six format
\* fields of f.format.
C4_RoundTripCounts ==
    (DecodedFromEncodeWav /\ call.mode = "channels-float32"
        /\ call.from.mode = "channels-float32"
        /\ IsSupported(call.from.wav.format))
        => LET f == call.from.wav
           IN /\ ret.ok
              /\ Len(ret.val.data) = f.format.channels
              /\ \A c \in 1..f.format.channels :
                    Len(ret.val.data[c]) = Len(f.data[c])
              /\ SameFormat(ret.val.format, f.format)

\* A 16-bit PCM round trip of 2 channels of 2 samples each.
C4_Witness ==
    /\ DecodedFromEncodeWav
    /\ call.mode = "channels-float32"
    /\ call.from.mode = "channels-float32"
    /\ call.from.wav.format.audioFormat = PCM
    /\ call.from.wav.format.bitsPerChannel = 16
    /\ call.from.wav.format.channels = 2
    /\ Len(call.from.wav.data[1]) = 2
    /\ ret.ok
    /\ Len(ret.val.data) = 2
    /\ Len(ret.val.data[2]) = 2

Abs(x) == IF x < 0 THEN -x ELSE x

\* C5 as stated: a sample p of [-1, 1] encoded to 16-bit PCM and decoded again
\* gives q with |q - p| <= 1/65536, and the stored raw value is in
\* [-32768, 32767].  With p = p.n / p.d and q = qn / 65535 the distance is
\* |qn * p.d - 65535 * p.n| / (65535 * p.d).
C5_ErrorAtMostOne65536th ==
    (DecodedFromEncodeWav /\ call.mode = "channels-float32"
        /\ call.from.mode = "channels-float32"
        /\ call.from.wav.format = SampleFormat)
        => LET p == call.from.wav.data[1][1]
               q == ret.val.data[1][1]
               raw == LoadElem(DataPayload(blob), PcmRow[16]).n
               errNum == Abs(BigInt(q.n) * p.d - 65535 * p.n)
           IN /\ ret.ok
              /\ q.d = <<0, 65535>>
              /\ raw \in (-32768)..32767
              /\ errNum * 65536 <= 65535 * p.d

\* The keys and texts the LIST/INFO chunk should hold for a TrackInfo
DecimalText(n) == IF n = 0 THEN <<48>> ELSE <<49, 50>>

ExpectedEntries(info) ==
    {<<InfoFields[k].key,
       IF InfoFields[k].field = "albumTrackId" THEN DecimalText(info[InfoFields[k].field])
       ELSE info[InfoFields[k].field]>> :
        k \in {j \in 1..Len(InfoFields) :
                /\ InfoFields[j].field \in DOMAIN info
                /\ (InfoFields[j].field = "albumTrackId" \/ info[InfoFields[j].field] # <<>>)}}

NonEmptyFields(info) ==
    [f \in {g \in DOMAIN info : g = "albumTrackId" \/ info[g] # <<>>} |-> info[f]]

InfoLists(content) == {i \in 1..Len(content) : content[i].id = LIST_ID}

\* C6: for every TrackInfo given to encodeWav, decodeRiff with the WAVE codecs
\* finds one LIST chunk of type INFO whose entries are exactly the mapped keys
\* of the fields that are present and non-empty (albumTrackId as decimal text)
\* with their values, and decodeWav returns the TrackInfo of exactly those
\* fields.
C6_MetadataRoundTrip ==
    /\ (pc = "done" /\ call.op = "decodeRiff" /\ call.from.op = "encodeWav"
            /\ call.codecs = waveCodec /\ ~IsNullInfo(call.from.wav.info))
        => /\ ret.ok
           /\ Cardinality(InfoLists(ret.val.content)) = 1
           /\ \A i \in InfoLists(ret.val.content) :
                 /\ ret.val.content[i].type = INFO
                 /\ {ret.val.content[i].entries[j] : j \in 1..Len(ret.val.content[i].entries)}
                        = ExpectedEntries(call.from.wav.info)
                 /\ Len(ret.val.content[i].entries)
                        = Cardinality(ExpectedEntries(call.from.wav.info))
    /\ (DecodedFromEncodeWav /\ ~IsNullInfo(call.from.wav.info))
        => /\ ret.ok
           /\ DOMAIN ret.val.info = DOMAIN NonEmptyFields(call.from.wav.info)
           /\ \A f \in DOMAIN ret.val.info : ret.val.info[f] = call.from.wav.info[f]

\* decodeWav of a file encoded with a comment of odd byte length, an empty
\* artist, a track name with a two-byte character and track number 0.
C6_Witness ==
    /\ DecodedFromEncodeWav
    /\ DOMAIN call.from.wav.info = {"comment", "artist", "trackName", "albumTrackId"}
    /\ call.from.wav.info.comment = <<104, 105>>
    /\ call.from.wav.info.artist = <<>>
    /\ call.from.wav.info.albumTrackId = 0
    /\ ret.ok
    /\ DOMAIN ret.val.info = {"comment", "trackName", "albumTrackId"}
    /\ ret.val.info.albumTrackId = 0

UnsupportedBits == Err("Unsupported bits per channel")

\* C7: for a format whose (audioFormat, bitsPerChannel) pair is outside the
\* table, encodeWav and decodeWav in the modes channels-fmt and
\* channels-float32 fail with the unsupported-bits error, and in mode raw-blob
\* they succeed with the data bytes unchanged.
C7_UnsupportedBits ==
    /\ (call.op = "encodeWav" /\ ~IsSupported(call.wav.format))
        => /\ call.mode \in {"channels-fmt", "channels-float32"} => ret = UnsupportedBits
           /\ call.mode = "raw-blob" => (ret.ok /\ DataPayload(blob) = call.wav.data)
    /\ (DecodedFromEncodeWav /\ ~IsSupported(call.from.wav.format))
        => /\ call.mode \in {"channels-fmt", "channels-float32"} => ret = UnsupportedBits
           /\ call.mode = "raw-blob" => (ret.ok /\ ret.val.data = DataPayload(blob))

\* decodeWav in mode channels-fmt of a 24-bit PCM file that encodeWav wrote in
\* mode raw-blob from 3 bytes.
C7_Witness ==
    /\ DecodedFromEncodeWav
    /\ call.from.wav.format.audioFormat = PCM
    /\ call.from.wav.format.bitsPerChannel = 24
    /\ call.from.mode = "raw-blob"
    /\ Len(call.from.wav.data) = 3
    /\ call.mode = "channels-fmt"
    /\ ret = UnsupportedBits

RecordsWithId(records, id) == {i \in 1..Len(records) : records[i].id = id}

First(indices) == CHOOSE i \in indices : \A j \in indices : i <= j

\* C8: decodeWav of a RIFF blob without a `fmt ` chunk fails naming `fmt `, of
\* one with a `fmt ` chunk but without a `data` chunk fails naming `data`, in
\* every mode; a result is returned only when both are present, its format is
\* that of the first `fmt ` chunk and its data is that of the first `data`
\* chunk.
C8_MissingChunks ==
    DecodedFromReceived
        => LET records == call.from.records
               fmts == RecordsWithId(records, FMT_ID)
               datas == RecordsWithId(records, DATA_ID)
           IN /\ fmts = {} => ret = Err("Missing 'fmt ' chunk")
              /\ (fmts # {} /\ datas = {}) => ret = Err("Missing 'data' chunk")
              /\ ret.ok =>
                    /\ fmts # {} /\ datas # {}
                    /\ FmtEncode(ret.val.format).val = records[First(fmts)].payload
                    /\ call.mode \in {"raw-blob", "raw-buffer"}
                          => ret.val.data = records[First(datas)].payload
                    /\ call.mode \in {"channels-fmt", "channels-float32"}
                          => /\ Len(ret.val.data) = ret.val.format.channels
                             /\ Len(ret.val.data[1]) * ret.val.format.blockAlign
                                    = Len(records[First(datas)].payload)

\* decodeWav of a blob with two different `fmt ` chunks and two different
\* `data` chunks.
C8_Witness ==
    /\ DecodedFromReceived
    /\ Len(call.from.records) = 3
    /\ call.from.records[1].id = DATA_ID
    /\ call.from.records[2].id = FMT_ID
    /\ call.from.records[3].id = FMT_ID
    /\ call.from.records[2].payload # call.from.records[3].payload
    /\ call.mode = "raw-blob"
    /\ ret.ok
    /\ ret.val.data = call.from.records[1].payload

U16At(b, i) == b[i] + 256 * b[i + 1]

\* C9: fmt.decode fails with the unsupported-format error for every payload
\* whose audioFormat is neither 1 nor 3, and for a payload of the 16-byte
\* layout whose audioFormat is 1 or 3 it returns the six fields.
C9_FormatValidation ==
    (pc = "done" /\ call.op = "fmt.decode")
        => /\ (Len(blob) >= 4 /\ U16At(blob, 1) \notin {1, 3})
                => ret = Err("Unsupported audio data format")
           /\ (Len(blob) >= 16 /\ U16At(blob, 1) \in {1, 3})
                => /\ ret.ok
                   /\ SameFormat(ret.val, call.from.format)
                   /\ ret.val.id = FMT_ID

\* fmt.decode of an 18-byte payload of format 3 with 2 channels at 44100 Hz.
C9_Witness ==
    /\ pc = "done"
    /\ call.op = "fmt.decode"
    /\ call.from.op = "receive"
    /\ Len(blob) = 18
    /\ ret.ok
    /\ ret.val.audioFormat = Floats
    /\ ret.val.channels = 2
    /\ ret.val.sampleRate = 44100
    /\ ret.val.bitsPerChannel = 16

\* The encodeWav call a state's blob comes from
EncodeCall == IF call.op = "encodeWav" THEN call ELSE call.from

\* C10: for a supported format with N channels and a data chunk of E elements,
\* decodeWav in mode channels-fmt returns N arrays of length E \div N, array c
\* holding at index i the bytes of flat element i * N + c; encodeWav in mode
\* channels-fmt stores sample i of channel c as flat element i * N + c.
C10_Interleaving ==
    /\ ((call.op = "encodeWav" \/ DecodedFromEncodeWav)
            /\ EncodeCall.mode = "channels-fmt" /\ IsSupported(EncodeCall.wav.format))
        => LET wav == EncodeCall.wav
               N == wav.format.channels
               dtype == dtypes(wav.format.audioFormat, wav.format.bitsPerChannel).val
           IN /\ blob # <<>>
              /\ DataLength(blob) = N * Len(wav.data[1]) * ElementSize(wav.format)
              /\ \A c \in 1..N : \A i \in 1..Len(wav.data[c]) :
                    LoadElem(FlatElement(DataPayload(blob), (i - 1) * N + (c - 1),
                                         ElementSize(wav.format)), dtype)
                        = wav.data[c][i]
    /\ (DecodedFromEncodeWav /\ call.mode = "channels-fmt"
            /\ IsSupported(call.from.wav.format)
            /\ DataLength(blob) % ElementSize(call.from.wav.format) = 0)
        => LET N == call.from.wav.format.channels
               size == ElementSize(call.from.wav.format)
               E == DataLength(blob) \div size
           IN /\ ret.ok
              /\ Len(ret.val.data) = N
              /\ \A c \in 1..N :
                    /\ Len(ret.val.data[c]) = E \div N
                    /\ \A i \in 1..(E \div N) :
                          ret.val.data[c][i]
                              = FlatElement(DataPayload(blob), (i - 1) * N + (c - 1), size)

\* decodeWav in mode channels-fmt of a 16-bit file that encodeWav wrote in mode
\* channels-fmt from 2 channels of 2 samples, the channels starting with
\* different samples.
C10_Witness ==
    /\ DecodedFromEncodeWav
    /\ call.mode = "channels-fmt"
    /\ call.from.mode = "channels-fmt"
    /\ call.from.wav.format.audioFormat = PCM
    /\ call.from.wav.format.bitsPerChannel = 16
    /\ call.from.wav.format.channels = 2
    /\ Len(call.from.wav.data[1]) = 2
    /\ call.from.wav.data[1][1] # call.from.wav.data[2][1]
    /\ ret.ok
    /\ Len(ret.val.data[1]) = 2
    /\ ret.val.data[1][1] # ret.val.data[2][1]

----------------------------------------------------------------------------
(* Properties of the `LIST` codec                                          *)

\* The cursor that 8 + roundUpToEven(size) gives from `prev`, SizeCap standing
\* for any cursor of SizeCap or more.
AdvancedCursor(prev, size) ==
    IF size[1] >= 16384 THEN SizeCap
    ELSE prev + 8 + size[1] * 65536 + size[2] + (size[2] % 2)

\* The stepped decoder and list.decode as one call agree.
ListStepsAgree ==
    (pc = "done" /\ call.op = "list.decode") => ret = ListDecode(blob)

\* C12: after every iteration that read a declared size s, for any unsigned
\* 32-bit s, the cursor is the previous cursor plus 8 + roundUpToEven(s); it
\* has grown by at least 8 and is not negative.
C12_CursorAdvance ==
    (pc = "listing" /\ call.op = "list.decode" /\ call.sized)
        => /\ call.pointer = AdvancedCursor(call.prev, call.size)
           /\ call.pointer >= call.prev + 8
           /\ call.pointer >= 0

\* The same for the declared sizes below 2^31 - 1.
C12_CursorAdvanceBelow2Pow31 ==
    (pc = "listing" /\ call.op = "list.decode" /\ call.sized
        /\ (call.size[1] < 32767 \/ (call.size[1] = 32767 /\ call.size[2] < 65535)))
        => /\ call.pointer = AdvancedCursor(call.prev, call.size)
           /\ call.pointer >= call.prev + 8
           /\ call.pointer >= 0

----------------------------------------------------------------------------
(* Termination of decodeWav                                                *)

\* C13: every call of decodeWav ends, with a result or with an error, for
\* every blob and every coding mode, channels = 0 and bitsPerChannel = 0
\* included: a call that has started has returned or raised.
C13_DecodeWavTerminates == (call.op = "decodeWav") => (pc = "done")

\* A call that is in the loop stays in it.
C13_LoopNeverEnds == [][pc = "looping" => pc' = "looping"]_vars

\* decodeWav ends when the `fmt ` chunk declares at least one channel.
C13_TerminatesWithChannels ==
    (call.op = "decodeWav" /\ call.from.format.channels >= 1) => (pc = "done")

\* decodeWav ends when the `fmt ` chunk declares bitsPerChannel = 0.
C13_TerminatesWithZeroBits ==
    (call.op = "decodeWav" /\ call.from.format.bitsPerChannel = 0) => (pc = "done")

\* The loop that does not end belongs to a channel mode, a file with no
\* channels, a supported sample width and a non-empty data chunk.
C13_LoopOnlyWithoutChannels ==
    (pc = "looping")
        => /\ call.mode \in {"channels-fmt", "channels-float32"}
           /\ call.from.format.channels = 0
           /\ call.from.format.bitsPerChannel # 0
           /\ call.from.data # <<>>

====
